---- MODULE Spec2Model ----
(***************************************************************************)
(* A model of the fastfloat crate (src/src/lib.rs): the Fast<F> wrapper,   *)
(* its operator dispatch onto the fast-math intrinsics, the total order    *)
(* built on the partial order of floats, summation, fastexp and the        *)
(* integer part of the 32-bit fastln.                                      *)
(*                                                                         *)
(* Floating-point scalars are bit patterns of a binary interchange format  *)
(* (sign | exponent | mantissa) with IEEE-754 semantics: signed zeros,     *)
(* subnormals, infinities, NaNs, round-to-nearest-even.  f32 and f64 are   *)
(* stood for by two narrow formats of the same layout, so that TLC can     *)
(* enumerate them.  The 32-bit fastln works on true 32-bit patterns, kept  *)
(* as two limbs (upper 9 bits, lower 23 bits).                             *)
(***************************************************************************)
EXTENDS Integers, Sequences, FiniteSets, TLC

(***************************************************************************)
(* Bounds of the model.                                                    *)
(***************************************************************************)
\* Operands are drawn from the halves k/2 with |k| <= MaxHalf, plus specials.
MaxHalf == 4

\* The client's registers start at NaN, +infinity or a whole number 0 .. MaxReg.
MaxReg == 1

\* The client runs at most MaxOps operations.
MaxOps == 2

\* Summation runs over at most MaxLen elements, each NaN, +infinity, the
\* largest finite value, a half, or a whole number 0 .. MaxElem.
MaxLen == 3

MaxElem == 3

\* fastln's input has any sign and exponent; its 23 mantissa bits lie within
\* LoSpread of 0, of the bias constant's low bits, or of all ones.
LoSpread == 1

(***************************************************************************)
(* The scalar formats.                                                     *)
(***************************************************************************)
Widths == {32, 64}

\* Exponent and mantissa field sizes of the stand-ins for f32 and f64.
ExpBits(w) == 4

MantBits(w) == IF w = 32 THEN 2 ELSE 3

Bias(w) == 2^(ExpBits(w) - 1) - 1

SignBit(w) == 2^(ExpBits(w) + MantBits(w))

Patterns(w) == 0 .. (2 * SignBit(w) - 1)

ExpMax(w) == 2^ExpBits(w) - 1

\* Exponent of the unit in the last place of the subnormals.
EMin(w) == 1 - Bias(w) - MantBits(w)

SignOf(w, p) == p \div SignBit(w)

ExpField(w, p) == (p \div 2^MantBits(w)) % 2^ExpBits(w)

Mant(w, p) == p % 2^MantBits(w)

IsNaN(w, p) == ExpField(w, p) = ExpMax(w) /\ Mant(w, p) # 0

IsInf(w, p) == ExpField(w, p) = ExpMax(w) /\ Mant(w, p) = 0

IsFinite(w, p) == ExpField(w, p) # ExpMax(w)

\* Significand and exponent: the value of a finite p is +-Sig * 2^Exp2.
Sig(w, p) == IF ExpField(w, p) = 0 THEN Mant(w, p) ELSE 2^MantBits(w) + Mant(w, p)

Exp2(w, p) == IF ExpField(w, p) = 0 THEN EMin(w) ELSE ExpField(w, p) - Bias(w) - MantBits(w)

\* Magnitude and signed value of a finite p, in units of 2^EMin.
Mag(w, p) == Sig(w, p) * 2^(Exp2(w, p) - EMin(w))

SVal(w, p) == IF SignOf(w, p) = 1 THEN 0 - Mag(w, p) ELSE Mag(w, p)

IsZero(w, p) == IsFinite(w, p) /\ Sig(w, p) = 0

Pack(w, s, ef, m) == s * SignBit(w) + ef * 2^MantBits(w) + m

QNaN(w) == Pack(w, 0, ExpMax(w), 2^(MantBits(w) - 1))

Inf(w, s) == Pack(w, s, ExpMax(w), 0)

Zero(w, s) == Pack(w, s, 0, 0)

MaxFinite(w) == Pack(w, 0, ExpMax(w) - 1, 2^MantBits(w) - 1)

MinSubnormal(w) == Pack(w, 0, 0, 1)

RECURSIVE BitLen(_)
BitLen(n) == IF n = 0 THEN 0 ELSE 1 + BitLen(n \div 2)

\* Pack a significand q < 2^(MantBits+1) at exponent e >= EMin; overflow to infinity.
PackSig(w, s, q, e) ==
    IF q = 2^(MantBits(w) + 1)
    THEN (IF e + 1 + Bias(w) + MantBits(w) >= ExpMax(w) THEN Inf(w, s)
          ELSE Pack(w, s, e + 1 + Bias(w) + MantBits(w), 0))
    ELSE IF q < 2^MantBits(w) THEN Pack(w, s, 0, q)
    ELSE IF e + Bias(w) + MantBits(w) >= ExpMax(w) THEN Inf(w, s)
    ELSE Pack(w, s, e + Bias(w) + MantBits(w), q - 2^MantBits(w))

\* Round (sig + d) * 2^e, with 0 <= d < 1 and d > 0 iff sticky, to the nearest
\* value of the format, ties to the even significand.
Round(w, s, sig, e, sticky) ==
    LET nb == BitLen(sig)
        want == e + nb - (MantBits(w) + 1)
        et == IF want < EMin(w) THEN EMin(w) ELSE want
        k == et - e
    IN  IF k <= 0 THEN PackSig(w, s, sig * 2^(0 - k), et)
        ELSE IF k > nb + 1 THEN Zero(w, s)
        ELSE LET q == sig \div 2^k
                 rem == sig % 2^k
                 half == 2^(k - 1)
                 up == \/ rem > half
                       \/ rem = half /\ sticky
                       \/ rem = half /\ ~sticky /\ q % 2 = 1
             IN  PackSig(w, s, IF up THEN q + 1 ELSE q, et)

\* A small dyadic literal k * 2^e as a scalar of width w.
Lit(w, k, e) == Round(w, IF k < 0 THEN 1 ELSE 0, IF k < 0 THEN 0 - k ELSE k, e, FALSE)

(***************************************************************************)
(* IEEE-754 arithmetic on patterns.                                        *)
(***************************************************************************)
FNeg(w, x) == IF x >= SignBit(w) THEN x - SignBit(w) ELSE x + SignBit(w)

IeeeAdd(w, x, y) ==
    IF IsNaN(w, x) \/ IsNaN(w, y) THEN QNaN(w)
    ELSE IF IsInf(w, x) THEN (IF IsInf(w, y) /\ SignOf(w, y) # SignOf(w, x) THEN QNaN(w) ELSE x)
    ELSE IF IsInf(w, y) THEN y
    ELSE LET t == SVal(w, x) + SVal(w, y)
         IN  IF t = 0
             THEN Zero(w, IF SignOf(w, x) = 1 /\ SignOf(w, y) = 1 THEN 1 ELSE 0)
             ELSE Round(w, IF t < 0 THEN 1 ELSE 0, IF t < 0 THEN 0 - t ELSE t, EMin(w), FALSE)

IeeeSub(w, x, y) == IF IsNaN(w, y) THEN QNaN(w) ELSE IeeeAdd(w, x, FNeg(w, y))

IeeeMul(w, x, y) ==
    LET s == (SignOf(w, x) + SignOf(w, y)) % 2
    IN  IF IsNaN(w, x) \/ IsNaN(w, y) THEN QNaN(w)
        ELSE IF IsInf(w, x) \/ IsInf(w, y)
             THEN (IF IsZero(w, x) \/ IsZero(w, y) THEN QNaN(w) ELSE Inf(w, s))
        ELSE IF IsZero(w, x) \/ IsZero(w, y) THEN Zero(w, s)
        ELSE Round(w, s, Sig(w, x) * Sig(w, y), Exp2(w, x) + Exp2(w, y), FALSE)

IeeeDiv(w, x, y) ==
    LET s == (SignOf(w, x) + SignOf(w, y)) % 2
        k == 2 * MantBits(w) + 4
    IN  IF IsNaN(w, x) \/ IsNaN(w, y) THEN QNaN(w)
        ELSE IF IsInf(w, x) THEN (IF IsInf(w, y) THEN QNaN(w) ELSE Inf(w, s))
        ELSE IF IsInf(w, y) THEN Zero(w, s)
        ELSE IF IsZero(w, y) THEN (IF IsZero(w, x) THEN QNaN(w) ELSE Inf(w, s))
        ELSE IF IsZero(w, x) THEN Zero(w, s)
        ELSE LET n == Sig(w, x) * 2^k
                 d == Sig(w, y)
             IN  Round(w, s, n \div d, Exp2(w, x) - Exp2(w, y) - k, n % d # 0)

\* fmod: the remainder of the truncated quotient, with the sign of x; exact.
IeeeRem(w, x, y) ==
    IF IsNaN(w, x) \/ IsNaN(w, y) \/ IsInf(w, x) \/ IsZero(w, y) THEN QNaN(w)
    ELSE IF IsInf(w, y) THEN x
    ELSE Round(w, SignOf(w, x), Mag(w, x) % Mag(w, y), EMin(w), FALSE)

\* The operands the checks draw from: NaN, the infinities, the negative zero,
\* the extreme finite magnitudes, and the halves k/2.
Inputs(w) ==
    {QNaN(w), Inf(w, 0), Inf(w, 1), Zero(w, 1), MaxFinite(w), MinSubnormal(w)}
        \cup {Lit(w, k, -1) : k \in (0 - MaxHalf) .. MaxHalf}

(***************************************************************************)
(* The wrapper and the fast-math intrinsics.                               *)
(***************************************************************************)
\* struct Fast<F>(pub F): a one-field tuple; v[1] is the field .0
Fast(v) == <<v>>

fa(v) == Fast(v)

\* A fast intrinsic may assume finite operands and a finite result; outside
\* that the result is unspecified: what the plain instruction gives, or a
\* constant the optimiser put in its place (a NaN stands for it here).
Unspecified(w, v) == {v, QNaN(w)}

FastResult(w, p, q, v) ==
    IF IsFinite(w, p) /\ IsFinite(w, q) /\ IsFinite(w, v) THEN {v} ELSE Unspecified(w, v)

fadd_fast(w, p, q) == FastResult(w, p, q, IeeeAdd(w, p, q))

fsub_fast(w, p, q) == FastResult(w, p, q, IeeeSub(w, p, q))

fmul_fast(w, p, q) == FastResult(w, p, q, IeeeMul(w, p, q))

fdiv_fast(w, p, q) == FastResult(w, p, q, IeeeDiv(w, p, q))

frem_fast(w, p, q) == FastResult(w, p, q, IeeeRem(w, p, q))

Intrinsic(name, w, p, q) ==
    CASE name = "fadd_fast" -> fadd_fast(w, p, q)
      [] name = "fsub_fast" -> fsub_fast(w, p, q)
      [] name = "fmul_fast" -> fmul_fast(w, p, q)
      [] name = "fdiv_fast" -> fdiv_fast(w, p, q)
      [] name = "frem_fast" -> frem_fast(w, p, q)

Operators == {"add", "div", "mul", "rem", "sub"}

\* The rows of the impl_op! invocation: method -> intrinsic.
OpIntrinsic(o) ==
    CASE o = "add" -> "fadd_fast"
      [] o = "div" -> "fdiv_fast"
      [] o = "mul" -> "fmul_fast"
      [] o = "rem" -> "frem_fast"
      [] o = "sub" -> "fsub_fast"

\* Mutant: a copied row kept the intrinsic of the row it was copied from.
AssignIntrinsic_copied_row(o) ==
    CASE o = "add" -> "fadd_fast"
      [] o = "div" -> "fdiv_fast"
      [] o = "mul" -> "fmul_fast"
      [] o = "rem" -> "frem_fast"
      [] o = "sub" -> "frem_fast"

\* The rows of the impl_assignop! invocation: method_assign -> intrinsic.
AssignIntrinsic(o) ==
    CASE o = "add" -> "fadd_fast"
      [] o = "div" -> "fdiv_fast"
      [] o = "mul" -> "fmul_fast"
      [] o = "rem" -> "frem_fast"
      [] o = "sub" -> "fsub_fast"

\* Fast<F> op F
op_wrapped_raw(o, w, self, rhs) ==
    {fa(v) : v \in Intrinsic(OpIntrinsic(o), w, self[1], rhs)}

\* f32 op F32
op_f32_wrapped(o, self, rhs) ==
    {fa(v) : v \in Intrinsic(OpIntrinsic(o), 32, self, rhs[1])}

\* f64 op F64
op_f64_wrapped(o, self, rhs) ==
    {fa(v) : v \in Intrinsic(OpIntrinsic(o), 64, self, rhs[1])}

\* Fast<F> op Fast<F>
op_wrapped_wrapped(o, w, self, rhs) ==
    {fa(v) : v \in Intrinsic(OpIntrinsic(o), w, self[1], rhs[1])}

\* Fast<F> op= Fast<F>: the values self may hold afterwards
assign_wrapped(o, w, self, rhs) ==
    {[self EXCEPT ![1] = v] : v \in Intrinsic(AssignIntrinsic(o), w, self[1], rhs[1])}

\* Fast<F> op= F
assign_raw(o, w, self, rhs) ==
    {[self EXCEPT ![1] = v] : v \in Intrinsic(AssignIntrinsic(o), w, self[1], rhs)}

(***************************************************************************)
(* Comparison.  The scalar comparisons are IEEE-754's, done on the bit     *)
(* patterns: a NaN compares false with everything, the two zeros are      *)
(* equal, and otherwise the sign-magnitude patterns order as the values.  *)
(***************************************************************************)
Key(w, p) == IF SignOf(w, p) = 1 THEN 0 - (p - SignBit(w)) ELSE p

float_eq(w, p, q) == ~IsNaN(w, p) /\ ~IsNaN(w, q) /\ Key(w, p) = Key(w, q)

float_lt(w, p, q) == ~IsNaN(w, p) /\ ~IsNaN(w, q) /\ Key(w, p) < Key(w, q)

float_le(w, p, q) == ~IsNaN(w, p) /\ ~IsNaN(w, q) /\ Key(w, p) <= Key(w, q)

float_ge(w, p, q) == float_le(w, q, p)

None == <<"None">>

Some(v) == <<"Some", v>>

\* PartialOrd for f32 / f64: match (self <= other, self >= other)
float_partial_cmp(w, p, q) ==
    CASE ~float_le(w, p, q) /\ ~float_ge(w, p, q) -> None
      [] ~float_le(w, p, q) /\ float_ge(w, p, q) -> Some("Greater")
      [] float_le(w, p, q) /\ ~float_ge(w, p, q) -> Some("Less")
      [] float_le(w, p, q) /\ float_ge(w, p, q) -> Some("Equal")

\* #[derive(PartialEq)] on Fast<F>: the fields are compared
derived_eq(w, self, other) == float_eq(w, self[1], other[1])

\* #[derive(PartialOrd)] on Fast<F>: the fields are compared
derived_partial_cmp(w, self, other) == float_partial_cmp(w, self[1], other[1])

\* The operators <, <=, >, >= of PartialOrd, from a partial_cmp result.
IsLt(c) == c = Some("Less")

IsLe(c) == c \in {Some("Less"), Some("Equal")}

IsGt(c) == c = Some("Greater")

IsGe(c) == c \in {Some("Greater"), Some("Equal")}

derived_lt(w, self, other) == IsLt(derived_partial_cmp(w, self, other))

derived_le(w, self, other) == IsLe(derived_partial_cmp(w, self, other))

derived_gt(w, self, other) == IsGt(derived_partial_cmp(w, self, other))

derived_ge(w, self, other) == IsGe(derived_partial_cmp(w, self, other))

\* Mutant: an unordered pair falls to Equal (partial_cmp().unwrap_or(Equal)).
cmp_unordered_equal(w, self, other) ==
    IF derived_lt(w, self, other) THEN "Less"
    ELSE IF derived_gt(w, self, other) THEN "Greater"
    ELSE "Equal"

\* Mutant: the first test is <= instead of <.
cmp_le_first(w, self, other) ==
    IF derived_le(w, self, other) THEN "Less"
    ELSE IF derived_eq(w, self, other) THEN "Equal"
    ELSE "Greater"

\* Ord::cmp for Fast<F>
cmp(w, self, other) ==
    IF derived_lt(w, self, other) THEN "Less"
    ELSE IF derived_eq(w, self, other) THEN "Equal"
    ELSE "Greater"

\* PartialEq<F>::eq for Fast<F>
eq_raw(w, self, other) == float_eq(w, self[1], other)

\* Mutant: the scalar's own partial order, None on a NaN.
partial_cmp_raw_ieee(w, self, other) == float_partial_cmp(w, self[1], other)

\* PartialOrd<F>::partial_cmp for Fast<F>
partial_cmp_raw(w, self, other) == Some(cmp(w, self, fa(other)))

lt_raw(w, self, other) == IsLt(partial_cmp_raw(w, self, other))

le_raw(w, self, other) == IsLe(partial_cmp_raw(w, self, other))

gt_raw(w, self, other) == IsGt(partial_cmp_raw(w, self, other))

ge_raw(w, self, other) == IsGe(partial_cmp_raw(w, self, other))

(***************************************************************************)
(* Negation, the named methods that round or strip the sign, and the       *)
(* casts.  These are the standard operations, not fast intrinsics.         *)
(***************************************************************************)
float_abs(w, p) == IF p >= SignBit(w) THEN p - SignBit(w) ELSE p

\* The value 1.0 in units of 2^EMin.
OneUnits(w) == 2^(0 - EMin(w))

\* The magnitude of p rounded to a whole number in the given mode, in units.
IntegralMag(w, p, mode) ==
    LET m == Mag(w, p)
        fl == (m \div OneUnits(w)) * OneUnits(w)
        frac == m % OneUnits(w)
        away == IF frac = 0 THEN m ELSE fl + OneUnits(w)
    IN  CASE mode = "trunc" -> fl
          [] mode = "floor" -> IF SignOf(w, p) = 1 THEN away ELSE fl
          [] mode = "ceil" -> IF SignOf(w, p) = 1 THEN fl ELSE away
          [] mode = "round" -> IF 2 * frac >= OneUnits(w) THEN fl + OneUnits(w) ELSE fl

float_integral(w, p, mode) ==
    IF ~IsFinite(w, p) THEN p
    ELSE Round(w, SignOf(w, p), IntegralMag(w, p, mode), EMin(w), FALSE)

\* p as a scalar of width to: `as f64` is exact, `as f32` rounds to nearest.
float_cast(from, to, p) ==
    IF IsNaN(from, p) THEN Pack(to, SignOf(from, p), ExpMax(to), 2^(MantBits(to) - 1))
    ELSE IF IsInf(from, p) THEN Inf(to, SignOf(from, p))
    ELSE Round(to, SignOf(from, p), Sig(from, p), Exp2(from, p), FALSE)

\* Neg for Fast<F>
neg(w, self) == fa(FNeg(w, self[1]))

abs(w, self) == fa(float_abs(w, self[1]))

ceil(w, self) == fa(float_integral(w, self[1], "ceil"))

floor(w, self) == fa(float_integral(w, self[1], "floor"))

round(w, self) == fa(float_integral(w, self[1], "round"))

trunc(w, self) == fa(float_integral(w, self[1], "trunc"))

\* F32::as_64
as_64(self) == fa(float_cast(32, 64, self[1]))

\* F64::as_32
as_32(self) == fa(float_cast(64, 32, self[1]))

(***************************************************************************)
(* State.  One width w per run; each machine below uses its own variables   *)
(* and leaves the others at Idle.                                          *)
(***************************************************************************)
VARIABLES
    w,      \* the width F is instantiated at: 32 or 64
    x, y,   \* operator forms: the two raw operands
    op,     \* operator forms: the operator under test, or Idle
    out,    \* operator forms: form -> the value it gave, or Idle
    lhs,    \* comparisons: the scalar of the left operand (always wrapped)
    rhs,    \* comparisons: the scalar of the right operand (wrapped or raw)
    call,   \* comparisons: the last call, [fn, val], or NoCall
    a, b,   \* client: two wrapped variables
    r,      \* client: a raw scalar variable
    a0,     \* client: a copy of a, taken earlier
    res,    \* client: the value the last operation returned
    last,   \* client: the last operation
    cnt,    \* client: the number of operations run
    xs,     \* sum: the wrapped values iterated over, by reference
    xs0,    \* sum: xs as it was before the call
    idx,    \* sum: how many elements the iterator has yielded
    acc,    \* sum: fold's accumulator
    total,  \* sum: the value returned
    spc,    \* sum: where the call is
    ex,     \* fastexp: self
    ey,     \* fastexp: the local y
    ey0,    \* fastexp: y as first assigned
    sq,     \* fastexp: how many times y *= y has run
    pw,     \* fastexp: the power of ey0 that y is in exact arithmetic
    epc,    \* fastexp: where the call is
    build,  \* fastln: "debug" (overflow checks on) or "release" (wrapping)
    ls,     \* fastln: the bits of self
    selfi,  \* fastln: the local selfi
    le,     \* fastln: the local e
    lm,     \* fastln: the bits of the local m
    lret,   \* fastln: what the value returned is computed from
    ovf,    \* fastln: a subtraction has left the i32 range
    lpc     \* fastln: where the call is

clientVars == <<a, b, r, a0, res, last, cnt>>

opsVars == <<x, y, op, out>>

cmpVars == <<lhs, rhs, call>>

sumVars == <<xs, xs0, idx, acc, total, spc>>

expVars == <<ex, ey, ey0, sq, pw, epc>>

lnVars == <<build, ls, selfi, le, lm, lret, ovf, lpc>>

vars == <<w, opsVars, cmpVars, clientVars, sumVars, expVars, lnVars>>

Idle == "idle"

NoCall == [fn |-> "none", val |-> "none"]

\* The variables of the machines a specification does not run.
OpsIdle == x = Idle /\ y = Idle /\ op = Idle /\ out = Idle

CmpIdle == lhs = Idle /\ rhs = Idle /\ call = NoCall

ClientIdle ==
    /\ a = Idle /\ b = Idle /\ r = Idle /\ a0 = Idle
    /\ res = Idle /\ last = Idle /\ cnt = 0

SumIdle ==
    /\ xs = Idle /\ xs0 = Idle /\ idx = 0
    /\ acc = Idle /\ total = Idle /\ spc = Idle

ExpIdle ==
    /\ ex = Idle /\ ey = Idle /\ ey0 = Idle
    /\ sq = 0 /\ pw = 0 /\ epc = Idle

LnIdle ==
    /\ build = Idle /\ ls = Idle /\ selfi = Idle /\ le = Idle
    /\ lm = Idle /\ lret = Idle /\ ovf = FALSE /\ lpc = Idle

Forms == {"wrapped_raw", "raw_wrapped", "wrapped_wrapped", "assign_wrapped", "assign_raw"}

(***************************************************************************)
(* The operator forms, each applied to the same operand pair (x, y).       *)
(***************************************************************************)
InitOps ==
    /\ w \in Widths
    /\ x \in Inputs(w)
    /\ y \in Inputs(w)
    /\ op = Idle
    /\ out = [f \in Forms |-> Idle]
    /\ CmpIdle /\ ClientIdle /\ SumIdle /\ ExpIdle /\ LnIdle

\* A form may run once, on the operator the run is about.
CanRun(o, f) == op \in {Idle, o} /\ out[f] = Idle

Record(o, f, v) ==
    /\ op' = o
    /\ out' = [out EXCEPT ![f] = v]
    /\ UNCHANGED <<w, x, y, cmpVars, clientVars, sumVars, expVars, lnVars>>

\* fa(x) op y
WrappedRaw(o) ==
    /\ CanRun(o, "wrapped_raw")
    /\ \E v \in op_wrapped_raw(o, w, fa(x), y) : Record(o, "wrapped_raw", v)

\* x op fa(y), x an f32
RawWrapped32(o) ==
    /\ w = 32
    /\ CanRun(o, "raw_wrapped")
    /\ \E v \in op_f32_wrapped(o, x, fa(y)) : Record(o, "raw_wrapped", v)

\* x op fa(y), x an f64
RawWrapped64(o) ==
    /\ w = 64
    /\ CanRun(o, "raw_wrapped")
    /\ \E v \in op_f64_wrapped(o, x, fa(y)) : Record(o, "raw_wrapped", v)

\* fa(x) op fa(y)
WrappedWrapped(o) ==
    /\ CanRun(o, "wrapped_wrapped")
    /\ \E v \in op_wrapped_wrapped(o, w, fa(x), fa(y)) : Record(o, "wrapped_wrapped", v)

\* let mut t = fa(x); t op= fa(y); t
AssignWrapped(o) ==
    /\ CanRun(o, "assign_wrapped")
    /\ \E v \in assign_wrapped(o, w, fa(x), fa(y)) : Record(o, "assign_wrapped", v)

\* let mut t = fa(x); t op= y; t
AssignRaw(o) ==
    /\ CanRun(o, "assign_raw")
    /\ \E v \in assign_raw(o, w, fa(x), y) : Record(o, "assign_raw", v)

NextOps ==
    \E o \in Operators :
        \/ WrappedRaw(o)
        \/ RawWrapped32(o)
        \/ RawWrapped64(o)
        \/ WrappedWrapped(o)
        \/ AssignWrapped(o)
        \/ AssignRaw(o)

SpecOps == InitOps /\ [][NextOps]_vars

(***************************************************************************)
(* The comparisons, each applied to the operand pair (lhs, rhs).           *)
(***************************************************************************)
InitCmp ==
    /\ w \in Widths
    /\ lhs \in Inputs(w)
    /\ rhs \in Inputs(w)
    /\ call = NoCall
    /\ OpsIdle /\ ClientIdle /\ SumIdle /\ ExpIdle /\ LnIdle

Return(fn, v) ==
    /\ call' = [fn |-> fn, val |-> v]
    /\ UNCHANGED <<w, lhs, rhs, opsVars, clientVars, sumVars, expVars, lnVars>>

\* fa(lhs).cmp(&fa(rhs))
CallCmp == Return("cmp", cmp(w, fa(lhs), fa(rhs)))

\* fa(lhs) == fa(rhs)
CallEq == Return("eq", derived_eq(w, fa(lhs), fa(rhs)))

\* fa(lhs).partial_cmp(&fa(rhs))
CallPartialCmp == Return("partial_cmp", derived_partial_cmp(w, fa(lhs), fa(rhs)))

\* fa(lhs) < fa(rhs), <=, >, >=
CallLt == Return("lt", derived_lt(w, fa(lhs), fa(rhs)))

CallLe == Return("le", derived_le(w, fa(lhs), fa(rhs)))

CallGt == Return("gt", derived_gt(w, fa(lhs), fa(rhs)))

CallGe == Return("ge", derived_ge(w, fa(lhs), fa(rhs)))

\* fa(lhs) == rhs
CallEqRaw == Return("eq_raw", eq_raw(w, fa(lhs), rhs))

\* fa(lhs).partial_cmp(&rhs)
CallPartialCmpRaw == Return("partial_cmp_raw", partial_cmp_raw(w, fa(lhs), rhs))

\* fa(lhs) < rhs, <=, >, >=
CallLtRaw == Return("lt_raw", lt_raw(w, fa(lhs), rhs))

CallLeRaw == Return("le_raw", le_raw(w, fa(lhs), rhs))

CallGtRaw == Return("gt_raw", gt_raw(w, fa(lhs), rhs))

CallGeRaw == Return("ge_raw", ge_raw(w, fa(lhs), rhs))

NextCmp ==
    \/ CallCmp
    \/ CallEq
    \/ CallPartialCmp
    \/ CallLt
    \/ CallLe
    \/ CallGt
    \/ CallGe
    \/ CallEqRaw
    \/ CallPartialCmpRaw
    \/ CallLtRaw
    \/ CallLeRaw
    \/ CallGtRaw
    \/ CallGeRaw

SpecCmp == InitCmp /\ [][NextCmp]_vars

(***************************************************************************)
(* A client holding two wrapped variables a and b, a raw scalar r and a    *)
(* copy a0 of a, and applying the crate's operations to them.              *)
(***************************************************************************)
Regs(ww) == {QNaN(ww), Inf(ww, 0)} \cup {Lit(ww, k, 0) : k \in 0 .. MaxReg}

Init ==
    /\ w \in Widths
    /\ a \in {fa(v) : v \in Regs(w)}
    /\ b \in {fa(v) : v \in Regs(w)}
    /\ r \in Regs(w)
    /\ a0 = a
    /\ res = Idle /\ last = Idle /\ cnt = 0
    /\ OpsIdle /\ CmpIdle /\ SumIdle /\ ExpIdle /\ LnIdle

\* An operation that takes its operands by value or by shared reference and
\* returns v.
Returns(name, v) ==
    /\ res' = v
    /\ last' = name
    /\ cnt' = cnt + 1
    /\ UNCHANGED <<w, a, b, r, a0, opsVars, cmpVars, sumVars, expVars, lnVars>>

\* a op r
ClientWrappedRaw(o) ==
    /\ cnt < MaxOps
    /\ \E v \in op_wrapped_raw(o, w, a, r) : Returns(o, v)

\* r op b, r an f32
ClientRawWrapped32(o) ==
    /\ cnt < MaxOps /\ w = 32
    /\ \E v \in op_f32_wrapped(o, r, b) : Returns(o, v)

\* r op b, r an f64
ClientRawWrapped64(o) ==
    /\ cnt < MaxOps /\ w = 64
    /\ \E v \in op_f64_wrapped(o, r, b) : Returns(o, v)

\* a op b
ClientWrappedWrapped(o) ==
    /\ cnt < MaxOps
    /\ \E v \in op_wrapped_wrapped(o, w, a, b) : Returns(o, v)

\* a op= b: &mut self is a
ClientAssignWrapped(o) ==
    /\ cnt < MaxOps
    /\ a' \in assign_wrapped(o, w, a, b)
    /\ last' = "assign"
    /\ cnt' = cnt + 1
    /\ UNCHANGED <<w, b, r, a0, res, opsVars, cmpVars, sumVars, expVars, lnVars>>

\* a op= r
ClientAssignRaw(o) ==
    /\ cnt < MaxOps
    /\ a' \in assign_raw(o, w, a, r)
    /\ last' = "assign"
    /\ cnt' = cnt + 1
    /\ UNCHANGED <<w, b, r, a0, res, opsVars, cmpVars, sumVars, expVars, lnVars>>

\* Mutant: negation in place.
ClientNeg_in_place ==
    /\ cnt < MaxOps
    /\ a' = neg(w, a)
    /\ res' = a'
    /\ last' = "neg"
    /\ cnt' = cnt + 1
    /\ UNCHANGED <<w, b, r, a0, opsVars, cmpVars, sumVars, expVars, lnVars>>

\* -a
ClientNeg == cnt < MaxOps /\ Returns("neg", neg(w, a))

\* a.cmp(&b), a == b, a.partial_cmp(&b)
ClientCmp == cnt < MaxOps /\ Returns("cmp", cmp(w, a, b))

ClientEq == cnt < MaxOps /\ Returns("eq", derived_eq(w, a, b))

ClientPartialCmp == cnt < MaxOps /\ Returns("partial_cmp", derived_partial_cmp(w, a, b))

\* a == r, a.partial_cmp(&r)
ClientEqRaw == cnt < MaxOps /\ Returns("eq_raw", eq_raw(w, a, r))

ClientPartialCmpRaw == cnt < MaxOps /\ Returns("partial_cmp_raw", partial_cmp_raw(w, a, r))

\* a.abs(), a.ceil(), a.floor(), a.round(), a.trunc()
ClientAbs == cnt < MaxOps /\ Returns("abs", abs(w, a))

ClientCeil == cnt < MaxOps /\ Returns("ceil", ceil(w, a))

ClientFloor == cnt < MaxOps /\ Returns("floor", floor(w, a))

ClientRound == cnt < MaxOps /\ Returns("round", round(w, a))

ClientTrunc == cnt < MaxOps /\ Returns("trunc", trunc(w, a))

\* a.as_64() on an F32, a.as_32() on an F64
ClientAs64 == cnt < MaxOps /\ w = 32 /\ Returns("as_64", as_64(a))

ClientAs32 == cnt < MaxOps /\ w = 64 /\ Returns("as_32", as_32(a))

\* let a0 = a: Fast is Copy
ClientCopy ==
    /\ cnt < MaxOps
    /\ a0' = a
    /\ last' = "copy"
    /\ cnt' = cnt + 1
    /\ UNCHANGED <<w, a, b, r, res, opsVars, cmpVars, sumVars, expVars, lnVars>>

Next ==
    \/ \E o \in Operators :
        \/ ClientWrappedRaw(o)
        \/ ClientRawWrapped32(o)
        \/ ClientRawWrapped64(o)
        \/ ClientWrappedWrapped(o)
        \/ ClientAssignWrapped(o)
        \/ ClientAssignRaw(o)
    \/ ClientNeg
    \/ ClientCmp
    \/ ClientEq
    \/ ClientPartialCmp
    \/ ClientEqRaw
    \/ ClientPartialCmpRaw
    \/ ClientAbs
    \/ ClientCeil
    \/ ClientFloor
    \/ ClientRound
    \/ ClientTrunc
    \/ ClientAs64
    \/ ClientAs32
    \/ ClientCopy

Spec == Init /\ [][Next]_vars

(***************************************************************************)
(* Sum<&F32> for F32 and Sum<&F64> for F64: iter.fold(fa(0.0), |a, b| a +   *)
(* *b).  fold starts its accumulator at the initial value, calls the       *)
(* closure on each element the iterator yields, in order, and returns the  *)
(* accumulator when the iterator is exhausted.                             *)
(***************************************************************************)
Elems(ww) ==
    {fa(v) : v \in {QNaN(ww), Inf(ww, 0), MaxFinite(ww), Lit(ww, 1, -1)}
                       \cup {Lit(ww, k, 0) : k \in 0 .. MaxElem}}

SeqsUpTo(S, n) == UNION {[1 .. k -> S] : k \in 0 .. n}

InitSum ==
    /\ w \in Widths
    /\ xs \in SeqsUpTo(Elems(w), MaxLen)
    /\ xs0 = xs
    /\ idx = 0 /\ acc = Idle /\ total = Idle /\ spc = "call"
    /\ OpsIdle /\ CmpIdle /\ ClientIdle /\ ExpIdle /\ LnIdle

\* Mutant: the closure subtracts.
sum_f32_closure_sub(p, q) == op_wrapped_wrapped("sub", 32, p, q)

\* |a, b| a + *b in Sum<&F32> for F32
sum_f32_closure(p, q) == op_wrapped_wrapped("add", 32, p, q)

\* |a, b| a + *b in Sum<&F64> for F64
sum_f64_closure(p, q) == op_wrapped_wrapped("add", 64, p, q)

\* fa(0.0) in Sum<&F32> for F32 and in Sum<&F64> for F64
sum_f32_init == fa(Lit(32, 0, 0))

sum_f64_init == fa(Lit(64, 0, 0))

\* F32::sum(iter): fold takes its initial value
SumBegin32 ==
    /\ w = 32 /\ spc = "call"
    /\ acc' = sum_f32_init
    /\ spc' = "fold"
    /\ UNCHANGED <<w, xs, xs0, idx, total, opsVars, cmpVars, clientVars, expVars, lnVars>>

SumBegin64 ==
    /\ w = 64 /\ spc = "call"
    /\ acc' = sum_f64_init
    /\ spc' = "fold"
    /\ UNCHANGED <<w, xs, xs0, idx, total, opsVars, cmpVars, clientVars, expVars, lnVars>>

\* the iterator yields &xs[idx + 1]; the closure is called on it
SumFold32 ==
    /\ w = 32 /\ spc = "fold" /\ idx < Len(xs)
    /\ acc' \in sum_f32_closure(acc, xs[idx + 1])
    /\ idx' = idx + 1
    /\ UNCHANGED <<w, xs, xs0, total, spc, opsVars, cmpVars, clientVars, expVars, lnVars>>

SumFold64 ==
    /\ w = 64 /\ spc = "fold" /\ idx < Len(xs)
    /\ acc' \in sum_f64_closure(acc, xs[idx + 1])
    /\ idx' = idx + 1
    /\ UNCHANGED <<w, xs, xs0, total, spc, opsVars, cmpVars, clientVars, expVars, lnVars>>

\* the iterator is exhausted; fold returns the accumulator
SumEnd ==
    /\ spc = "fold" /\ idx = Len(xs)
    /\ total' = acc
    /\ spc' = "done"
    /\ UNCHANGED <<w, xs, xs0, idx, acc, opsVars, cmpVars, clientVars, expVars, lnVars>>

NextSum ==
    \/ SumBegin32
    \/ SumBegin64
    \/ SumFold32
    \/ SumFold64
    \/ SumEnd

SpecSum == InitSum /\ [][NextSum]_vars

(***************************************************************************)
(* F32::fastexp and F64::fastexp, statement by statement:                  *)
(*     let mut y = 1.0 + self*0.00390625;                                  *)
(*     y *= y; ... (eight times)                                           *)
(*     y                                                                   *)
(* pw follows the value of y over the reals: y is ey0 to the power pw, and *)
(* y *= y adds the exponent to itself.                                     *)
(***************************************************************************)
\* The inputs: the operands of Inputs, and the multiples of 32 up to 32 * MaxHalf
\* either side of zero, for which 1 + x/256 is well away from 1.
ExpInputs(ww) == Inputs(ww) \cup {Lit(ww, k, 5) : k \in (0 - MaxHalf) .. MaxHalf}

InitExp ==
    /\ w \in Widths
    /\ ex \in {fa(v) : v \in ExpInputs(w)}
    /\ ey = Idle /\ ey0 = Idle /\ sq = 0 /\ pw = 0 /\ epc = "call"
    /\ OpsIdle /\ CmpIdle /\ ClientIdle /\ SumIdle /\ LnIdle

\* The number of y *= y statements in F32::fastexp and in F64::fastexp.
Squarings32 == 8

\* Mutant: one y *= y short.
Squarings64_seven == 8 - 1

Squarings64 == 8

\* 1.0 + self*0.00390625: Fast<f32> * f32, then f32 + F32
fastexp_f32_start(self) ==
    UNION {op_f32_wrapped("add", Lit(32, 1, 0), t) :
               t \in op_wrapped_raw("mul", 32, self, Lit(32, 1, -8))}

\* 1.0 + self*0.00390625: Fast<f64> * f64, then f64 + F64
fastexp_f64_start(self) ==
    UNION {op_f64_wrapped("add", Lit(64, 1, 0), t) :
               t \in op_wrapped_raw("mul", 64, self, Lit(64, 1, -8))}

\* let mut y = 1.0 + self*0.00390625;
ExpStart32 ==
    /\ w = 32 /\ epc = "call"
    /\ ey' \in fastexp_f32_start(ex)
    /\ ey0' = ey'
    /\ pw' = 1
    /\ epc' = "square"
    /\ UNCHANGED <<w, ex, sq, opsVars, cmpVars, clientVars, sumVars, lnVars>>

ExpStart64 ==
    /\ w = 64 /\ epc = "call"
    /\ ey' \in fastexp_f64_start(ex)
    /\ ey0' = ey'
    /\ pw' = 1
    /\ epc' = "square"
    /\ UNCHANGED <<w, ex, sq, opsVars, cmpVars, clientVars, sumVars, lnVars>>

\* y *= y;
ExpSquare32 ==
    /\ w = 32 /\ epc = "square" /\ sq < Squarings32
    /\ ey' \in assign_wrapped("mul", 32, ey, ey)
    /\ sq' = sq + 1
    /\ pw' = pw + pw
    /\ UNCHANGED <<w, ex, ey0, epc, opsVars, cmpVars, clientVars, sumVars, lnVars>>

ExpSquare64 ==
    /\ w = 64 /\ epc = "square" /\ sq < Squarings64
    /\ ey' \in assign_wrapped("mul", 64, ey, ey)
    /\ sq' = sq + 1
    /\ pw' = pw + pw
    /\ UNCHANGED <<w, ex, ey0, epc, opsVars, cmpVars, clientVars, sumVars, lnVars>>

\* y
ExpReturn32 ==
    /\ w = 32 /\ epc = "square" /\ sq = Squarings32
    /\ epc' = "done"
    /\ UNCHANGED <<w, ex, ey, ey0, sq, pw, opsVars, cmpVars, clientVars, sumVars, lnVars>>

ExpReturn64 ==
    /\ w = 64 /\ epc = "square" /\ sq = Squarings64
    /\ epc' = "done"
    /\ UNCHANGED <<w, ex, ey, ey0, sq, pw, opsVars, cmpVars, clientVars, sumVars, lnVars>>

NextExp ==
    \/ ExpStart32
    \/ ExpStart64
    \/ ExpSquare32
    \/ ExpSquare64
    \/ ExpReturn32
    \/ ExpReturn64

SpecExp == InitExp /\ [][NextExp]_vars

(***************************************************************************)
(* F32::fastln, statement by statement, on true 32-bit patterns.  A 32-bit *)
(* word is a pair [hi, lo]: lo is its low 23 bits (the mantissa field of   *)
(* an f32) and hi its upper 9 bits (sign and exponent), read as a signed   *)
(* number -256 .. 255 for an i32; the word's value is hi * 2^23 + lo.      *)
(* A subtraction that leaves the i32 range panics in a build with overflow *)
(* checks (debug) and wraps in one without (release).                      *)
(***************************************************************************)
LoBits == 23

LoMod == 2^LoBits

\* Mutant: the bias is off by one exponent step.
BiasHi_one == 126 + 1

\* 0x3f2aaaab = 126 * 2^23 + 0x2aaaab
BiasHi == 126

BiasLo == 2796203

\* 0xff800000 as an i32 (overflowing_literals): the upper 9 bits set
MaskHi == 511

MaskLo == 0

Word(hi, lo) == [hi |-> hi, lo |-> lo]

\* The bitwise and of two naturals.
RECURSIVE BitAnd(_, _)
BitAnd(m, n) ==
    IF m = 0 \/ n = 0 THEN 0
    ELSE 2 * BitAnd(m \div 2, n \div 2) + (IF m % 2 = 1 /\ n % 2 = 1 THEN 1 ELSE 0)

\* The upper 9 bits as a bit field 0 .. 511 and back to the signed reading.
HiField(h) == IF h < 0 THEN h + 512 ELSE h

HiSigned(f) == IF f >= 256 THEN f - 512 ELSE f

\* mem::transmute(self):i32: the bits of an F32 read as an i32
transmute_to_i32(bits) == Word(HiSigned(bits.hi), bits.lo)

\* mem::transmute(..):Self: an i32 read as the bits of an F32
transmute_to_f32(i) == Word(HiField(i.hi), i.lo)

\* p - q over the integers, as a word whose hi may lie outside -256 .. 255.
ExactSub(p, q) ==
    LET borrow == IF p.lo < q.lo THEN 1 ELSE 0
    IN  Word(p.hi - q.hi - borrow, p.lo - q.lo + borrow * LoMod)

InI32(d) == d.hi >= -256 /\ d.hi <= 255

\* The i32 a wrapping subtraction leaves.
Wrap32(d) == Word(HiSigned(d.hi % 512), d.lo)

\* i32 & i32
And32(p, q) == Word(HiSigned(BitAnd(HiField(p.hi), HiField(q.hi))), BitAnd(p.lo, q.lo))

LoSamples ==
    UNION {{k, BiasLo - k, BiasLo + k, LoMod - 1 - k} : k \in 0 .. LoSpread}

InitLn ==
    /\ w = 32
    /\ build \in {"debug", "release"}
    /\ ls \in {Word(h, l) : h \in 0 .. 511, l \in LoSamples}
    /\ selfi = Idle /\ le = Idle /\ lm = Idle /\ lret = Idle
    /\ ovf = FALSE /\ lpc = "call"
    /\ OpsIdle /\ CmpIdle /\ ClientIdle /\ SumIdle /\ ExpIdle

\* let selfi = mem::transmute(self):i32;
LnTransmute ==
    /\ lpc = "call"
    /\ selfi' = transmute_to_i32(ls)
    /\ lpc' = "e"
    /\ UNCHANGED <<w, build, ls, le, lm, lret, ovf, opsVars, cmpVars, clientVars, sumVars, expVars>>

\* let e = (selfi - 0x3f2aaaab) & 0xff800000;
LnExponent ==
    /\ lpc = "e"
    /\ LET d == ExactSub(selfi, Word(BiasHi, BiasLo))
       IN  /\ ovf' = ~InI32(d)
           /\ IF ~InI32(d) /\ build = "debug"
              THEN lpc' = "panic" /\ le' = le
              ELSE lpc' = "m" /\ le' = And32(Wrap32(d), transmute_to_i32(Word(MaskHi, MaskLo)))
    /\ UNCHANGED <<w, build, ls, selfi, lm, lret, opsVars, cmpVars, clientVars, sumVars, expVars>>

\* let m = mem::transmute(selfi - e):Self;
LnMantissa ==
    /\ lpc = "m"
    /\ LET d == ExactSub(selfi, le)
       IN  /\ ovf' = (ovf \/ ~InI32(d))
           /\ IF ~InI32(d) /\ build = "debug"
              THEN lpc' = "panic" /\ lm' = lm
              ELSE lpc' = "poly" /\ lm' = transmute_to_f32(Wrap32(d))
    /\ UNCHANGED <<w, build, ls, selfi, le, lret, opsVars, cmpVars, clientVars, sumVars, expVars>>

\* let i = fa(e as f32) * 1.19209290e-7; let f = m - 1.0; ... i.mul_add(..)
\* i is e scaled by 2^-23, kept as the word of e: le.hi + le.lo / 2^23.  The
\* value returned is computed from i and m alone.
LnPolynomial ==
    /\ lpc = "poly"
    /\ lret' = [i |-> le, m |-> lm]
    /\ lpc' = "done"
    /\ UNCHANGED <<w, build, ls, selfi, le, lm, ovf, opsVars, cmpVars, clientVars, sumVars, expVars>>

NextLn ==
    \/ LnTransmute
    \/ LnExponent
    \/ LnMantissa
    \/ LnPolynomial

SpecLn == InitLn /\ [][NextLn]_vars

(***************************************************************************)
(* The order of the values the patterns stand for, on the extended reals.  *)
(***************************************************************************)
ExtVal(ww, p) ==
    IF IsInf(ww, p)
    THEN (IF SignOf(ww, p) = 1 THEN 0 - (Mag(ww, MaxFinite(ww)) + 1) ELSE Mag(ww, MaxFinite(ww)) + 1)
    ELSE SVal(ww, p)

NumLt(ww, p, q) == ~IsNaN(ww, p) /\ ~IsNaN(ww, q) /\ ExtVal(ww, p) < ExtVal(ww, q)

NumEq(ww, p, q) == ~IsNaN(ww, p) /\ ~IsNaN(ww, q) /\ ExtVal(ww, p) = ExtVal(ww, q)

\* Less when p < q, otherwise Equal when p == q, otherwise Greater.
RuleOrder(ww, p, q) ==
    IF NumLt(ww, p, q) THEN "Less" ELSE IF NumEq(ww, p, q) THEN "Equal" ELSE "Greater"

FiniteInputs(ww) == {p \in Inputs(ww) : IsFinite(ww, p)}

\* C1: cmp(a, b) is Less when a < b, otherwise Equal when a == b, otherwise
\* Greater, for every pair including NaN and the infinities; so a pair with a
\* NaN in it is Greater, and cmp(n, n) is Greater for a NaN n.
C1_CmpRule ==
    call.fn = "cmp" =>
        /\ call.val = RuleOrder(w, lhs, rhs)
        /\ (IsNaN(w, lhs) \/ IsNaN(w, rhs)) => call.val = "Greater"

C1_Witness ==
    call.fn = "cmp" /\ IsNaN(w, lhs) /\ rhs = lhs /\ call.val = "Greater"

\* C2: on finite operands cmp is a total order: cmp(a, a) is Equal; cmp(a, b)
\* is Less exactly when cmp(b, a) is Greater; Equal both ways only when
\* a == b; Less is transitive.
C2_TotalOrderOnFinite ==
    (call.fn = "cmp" /\ IsFinite(w, lhs) /\ IsFinite(w, rhs)) =>
        /\ lhs = rhs => call.val = "Equal"
        /\ call.val = "Less" <=> cmp(w, fa(rhs), fa(lhs)) = "Greater"
        /\ (call.val = "Equal" /\ cmp(w, fa(rhs), fa(lhs)) = "Equal") => NumEq(w, lhs, rhs)
        /\ \A c \in FiniteInputs(w) :
               (call.val = "Less" /\ cmp(w, fa(rhs), fa(c)) = "Less")
                   => cmp(w, fa(lhs), fa(c)) = "Less"

C2_Witness ==
    /\ call.fn = "cmp" /\ call.val = "Less"
    /\ IsFinite(w, lhs) /\ IsFinite(w, rhs)
    /\ \E c \in FiniteInputs(w) : cmp(w, fa(rhs), fa(c)) = "Less"

\* C3: ordering a wrapped value against a raw scalar always gives Some of the
\* Less/Equal/Greater rule on (a, r), never None, NaN included; and a == r
\* holds exactly when the rule gives Equal.
C3_RawFollowsRule ==
    /\ call.fn = "partial_cmp_raw" =>
           call.val = Some(RuleOrder(w, lhs, rhs)) /\ call.val # None
    /\ call.fn = "eq_raw" => (call.val <=> RuleOrder(w, lhs, rhs) = "Equal")

C3_Witness ==
    call.fn = "partial_cmp_raw" /\ IsNaN(w, rhs) /\ call.val = Some("Greater")

\* C10: a < r, a <= r, a > r, a >= r and a == r have the truth value of the
\* same operator on a and wrap(r), and the partial comparison of two wrapped
\* values is Some(cmp(a, b)), for every input including NaN.
C10_OperatorsAgree ==
    /\ call.fn = "lt_raw" => (call.val <=> derived_lt(w, fa(lhs), fa(rhs)))
    /\ call.fn = "le_raw" => (call.val <=> derived_le(w, fa(lhs), fa(rhs)))
    /\ call.fn = "gt_raw" => (call.val <=> derived_gt(w, fa(lhs), fa(rhs)))
    /\ call.fn = "ge_raw" => (call.val <=> derived_ge(w, fa(lhs), fa(rhs)))
    /\ call.fn = "eq_raw" => (call.val <=> derived_eq(w, fa(lhs), fa(rhs)))
    /\ call.fn = "partial_cmp" => call.val = Some(cmp(w, fa(lhs), fa(rhs)))

\* C5: a wrapped variable changes only through a compound assignment applied
\* to it: an assignment a op= b replaces the value of a alone and leaves b, the
\* raw operand and the earlier copy of a as they were; every other operation
\* leaves all the variables as they were.
C5_OnlyAssignMutates ==
    [][/\ b' = b
       /\ r' = r
       /\ last' # "copy" => a0' = a0
       /\ last' # "assign" => a' = a
       /\ last' = "assign" =>
              \E o \in Operators : a' \in assign_wrapped(o, w, a, b) \cup assign_raw(o, w, a, r)]_vars

C5_Witness == last = "assign" /\ a # a0 /\ cnt = MaxOps

\* The IEEE-754 result of operator o on the left operand p and the right
\* operand q.
IeeeOf(o, ww, p, q) ==
    CASE o = "add" -> IeeeAdd(ww, p, q)
      [] o = "sub" -> IeeeSub(ww, p, q)
      [] o = "mul" -> IeeeMul(ww, p, q)
      [] o = "div" -> IeeeDiv(ww, p, q)
      [] o = "rem" -> IeeeRem(ww, p, q)

Done == {f \in Forms : out[f] # Idle}

RECURSIVE LeftFoldAdd(_, _, _)
LeftFoldAdd(ww, accs, seq) ==
    IF seq = <<>> THEN accs
    ELSE LeftFoldAdd(ww,
                     UNION {op_wrapped_wrapped("add", ww, c, Head(seq)) : c \in accs},
                     Tail(seq))

\* Every partial sum of seq from zero is finite, so no intrinsic is called
\* outside its precondition.
RECURSIVE FinitePrefixSums(_, _, _)
FinitePrefixSums(ww, c, seq) ==
    /\ IsFinite(ww, c)
    /\ seq # <<>> =>
           /\ IsFinite(ww, Head(seq)[1])
           /\ FinitePrefixSums(ww, IeeeAdd(ww, c, Head(seq)[1]), Tail(seq))

RECURSIVE ExactSum(_, _)
ExactSum(ww, seq) ==
    IF seq = <<>> THEN 0 ELSE SVal(ww, Head(seq)[1]) + ExactSum(ww, Tail(seq))

\* C6: the sum over references to wrapped values is the left fold of the
\* wrapped add operator over them in order, from zero: the empty sequence sums
\* to wrap(0), [wrap(1), wrap(2), wrap(3)] sums to exactly wrap(6), and the
\* elements are left as they were.
C6_SumIsLeftFold ==
    /\ xs = xs0
    /\ spc = "done" =>
           /\ total \in LeftFoldAdd(w, {fa(Zero(w, 0))}, xs)
           /\ FinitePrefixSums(w, Zero(w, 0), xs) => LeftFoldAdd(w, {fa(Zero(w, 0))}, xs) = {total}
           /\ xs = <<>> => total = fa(Zero(w, 0))
           /\ xs = <<fa(Lit(w, 1, 0)), fa(Lit(w, 2, 0)), fa(Lit(w, 3, 0))>>
                  => total = fa(Lit(w, 6, 0))

C6_Witness ==
    /\ spc = "done"
    /\ xs = <<fa(Lit(w, 1, 0)), fa(Lit(w, 2, 0)), fa(Lit(w, 3, 0))>>
    /\ total = fa(Lit(w, 6, 0))
    /\ SVal(w, total[1]) = ExactSum(w, xs)

\* 1 + p * (1/256), rounded after the product and after the sum.
OnePlus256th(ww, p) == IeeeAdd(ww, Lit(ww, 1, 0), IeeeMul(ww, p, Lit(ww, 1, -8)))

\* C9: at both widths fastexp(x) starts from y = 1 + x*(1/256) and squares y
\* exactly eight times, so that over the reals the result is the 256th power
\* of 1 + x/256; fastexp(0) is exactly 1; the two widths run the same steps.
C9_FastexpSteps ==
    /\ epc # Idle => sq <= 8 /\ pw = (IF epc = "call" THEN 0 ELSE 2^sq)
    /\ (epc \in {"square", "done"} /\ IsFinite(w, ex[1]) /\ IsFinite(w, OnePlus256th(w, ex[1])))
           => ey0 = fa(OnePlus256th(w, ex[1]))
    /\ epc = "done" =>
           /\ sq = 8
           /\ pw = 256
           /\ IsZero(w, ex[1]) => ey = fa(Lit(w, 1, 0))

C9_Witness ==
    /\ epc = "done" /\ sq = 8 /\ pw = 256
    /\ ex = fa(Lit(w, -2, 5))
    /\ ey0 = fa(Lit(w, 3, -2))
    /\ ey = fa(Zero(w, 0))

\* Word p is below word q, as integers.
WordLess(p, q) == p.hi < q.hi \/ (p.hi = q.hi /\ p.lo < q.lo)

\* p + q over the integers.
ExactAdd(p, q) ==
    Word(p.hi + q.hi + (p.lo + q.lo) \div LoMod, (p.lo + q.lo) % LoMod)

\* C7: fastln is total over all 32-bit inputs: both subtractions, selfi -
\* 0x3F2AAAAB and selfi - e, stay inside the i32 range, so it never faults.
C7_NoOverflow == ~ovf /\ lpc # "panic"

\* C8: for a positive normal input (0x00800000 <= s <= 0x7F7FFFFF) e is a
\* multiple of 2^23, the remainder s - e lies in [0x3F2AAAAB, 0x3F2AAAAB +
\* 0x00800000), so m lies in [2/3, 4/3), and s = e + bits(m).
C8_ExponentSplit ==
    (lpc \in {"poly", "done"} /\ ls.hi >= 1 /\ ls.hi <= 254) =>
        /\ ~ovf
        /\ le.lo = 0
        /\ ~WordLess(lm, Word(126, 2796203))
        /\ WordLess(lm, Word(127, 2796203))
        /\ ExactAdd(le, lm) = ls

C8_Witness ==
    /\ lpc = "done"
    /\ ls = Word(254, LoMod - 1)
    /\ lret.i = Word(128, 0)
    /\ lret.m = Word(126, LoMod - 1)
====
